---- MODULE Spec2Model ----
(***************************************************************************)
(* Lift simulator (src/src/building.rs): a Building owns lift_count Lifts. *)
(* Every Lift runs its own control loop (start_threads) over fields that   *)
(* are each behind their own RwLock; callers submit Passengers through     *)
(* Building::respond and read the lifts through Building::data.            *)
(*                                                                         *)
(* One step of the model is one stretch of code during which the thread    *)
(* either holds a lock or touches only fields no other thread writes.      *)
(* A call of respond or data is one step: what it reads of the several    *)
(* lifts is read in one state.  Vec positions are 0-based as in the        *)
(* source; vec[x] of the source is v[x + 1] here.                          *)
(*                                                                         *)
(* The order in which the calls take and drop the RwLock guards is         *)
(* modelled apart (SpecLocks): there one step is one acquisition, one      *)
(* drop or one branch of a thread, and the branches that depend on data    *)
(* are taken either way.                                                   *)
(***************************************************************************)
EXTENDS Integers, Sequences, FiniteSets, TLC

\* ---- bounds of the model ----
MaxLifts == 2
TopFloor == 2
MaxRequests == 2

\* Lock level: the threads there are (control threads and callers), and the
\* passengers that board in one arrival at most.
LockThreads == 3
MaxBoarders == 1

\* Args::bottom, the default bottom floor of the building.
BottomFloor == 0

VARIABLES
    lift_count,   \* Building.lifts.len(), fixed by Building::new
    floor,        \* Lift.floor
    direction,    \* Lift.direction
    doors_open,   \* Lift.doors_open
    passengers,   \* Lift.passengers, a Vec<Passenger>
    targets,      \* Lift.targets, a Vec<i32>
    pc,           \* where each lift's control thread stands
    tgt,          \* the control thread's local `target`
    ldir,         \* move_towards' local `direction`, read before set_direction
    poisoned,     \* per lift, the fields whose RwLock is poisoned
    budget,       \* calls of respond the request source has left
    panicked,     \* the calling (main) thread has panicked
    ret,          \* what the call made in the last step returned
    held,         \* lock level: the RwLock guards alive, by thread
    prog          \* lock level: what each thread has left to do of its call

vars == <<lift_count, floor, direction, doors_open, passengers, targets,
          pc, tgt, ldir, poisoned, budget, panicked, ret, held, prog>>

Lifts == 0 .. (lift_count - 1)

Floors == BottomFloor .. TopFloor

Direction == {"Up", "Down", "Stopped"}

Fields == {"floor", "direction", "doors_open", "passengers", "targets"}

\* Passenger::new: a request is not riding.
NewPassenger(from_floor, to_floor) ==
    [from_floor |-> from_floor, to_floor |-> to_floor, riding |-> FALSE]

\* The requests a source can make: both floors within the building.
PassengerRequests == {NewPassenger(f, t) : f \in Floors, t \in Floors}

\* #[derive(PartialOrd, Ord)] on Passenger: lexicographic over
\* (from_floor, to_floor, riding), false < true.
PassengerLt(a, b) ==
    \/ a.from_floor < b.from_floor
    \/ a.from_floor = b.from_floor /\ a.to_floor < b.to_floor
    \/ a.from_floor = b.from_floor /\ a.to_floor = b.to_floor
       /\ ~a.riding /\ b.riding

\* T: Ord of binary_add<T>, at the two types it is used with.
Lt(T, a, b) ==
    CASE T = "i32" -> a < b
      [] T = "Passenger" -> PassengerLt(a, b)

\* fn difference
\* difference without the comparison of its arguments.
difference_signed(x, y) == x - y

difference(x, y) == IF x > y THEN x - y ELSE y - x

Range(v) == {v[i] : i \in 1 .. Len(v)}

\* slice::binary_search on a sorted Vec: Ok(x) with vec[x] = item, or
\* Err(x) with x the position that keeps the Vec sorted.
binary_search(vec, item, T) ==
    IF \E i \in 1 .. Len(vec) : vec[i] = item
    THEN [found |-> TRUE,
          pos |-> (CHOOSE i \in 1 .. Len(vec) : vec[i] = item) - 1]
    ELSE [found |-> FALSE,
          pos |-> Cardinality({i \in 1 .. Len(vec) : Lt(T, vec[i], item)})]

\* Vec::insert(pos, item)
VecInsert(vec, pos, item) ==
    SubSeq(vec, 1, pos) \o <<item>> \o SubSeq(vec, pos + 1, Len(vec))

\* Vec::remove(pos)
VecRemove(vec, pos) ==
    SubSeq(vec, 1, pos) \o SubSeq(vec, pos + 2, Len(vec))

\* binary_add that inserts whether or not the item is there.
binary_add_always(vec, item, T) ==
    VecInsert(vec, binary_search(vec, item, T).pos, item)

\* fn binary_add
binary_add(vec, item, T) ==
    LET s == binary_search(vec, item, T)
    IN  IF s.found THEN vec ELSE VecInsert(vec, s.pos, item)

\* Lift::get_info succeeds when floor, direction and doors_open can all be
\* read-locked.
InfoOk(l) == poisoned[l] \cap {"floor", "direction", "doors_open"} = {}

NoRet == [op |-> "none"]

\* i32::MAX, the initial `closest` of best_lift.
I32Max == 2147483647

\* ---- construction ----

\* Lift::new for every lift of Building::new(bottom, top, lift_count), each
\* control thread about to enter its loop; the request source will call
\* respond `requests` times.
InitWith(counts, requests) ==
    /\ lift_count \in counts
    /\ floor = [l \in Lifts |-> 0]
    /\ direction = [l \in Lifts |-> "Stopped"]
    /\ doors_open = [l \in Lifts |-> FALSE]
    /\ passengers = [l \in Lifts |-> <<>>]
    /\ targets = [l \in Lifts |-> <<>>]
    /\ pc = [l \in Lifts |-> "next"]
    /\ tgt = [l \in Lifts |-> 0]
    /\ ldir = [l \in Lifts |-> "Stopped"]
    /\ poisoned = [l \in Lifts |-> {}]
    /\ budget = requests
    /\ panicked = FALSE
    /\ ret = NoRet
    /\ held = {}
    /\ prog = <<>>

\* lift_count is a u32 argument: any number of lifts, none included.
Init == InitWith(0 .. MaxLifts, MaxRequests)

\* ---- the dispatcher ----

\* distance_from that takes the last target on the way Down too.
distance_from_last(l, passenger) ==
    LET p_floor == passenger.from_floor
        p_dir == IF passenger.to_floor > p_floor THEN "Up" ELSE "Down"
        l_floor == floor[l]
        l_dir == direction[l]
        ts == targets[l]
        last_target == ts[Len(ts)]
    IN  IF ~InfoOk(l) \/ "targets" \in poisoned[l]
        THEN [ok |-> FALSE, dist |-> 0]
        ELSE IF l_dir = "Stopped" \/ ts = <<>>
        THEN [ok |-> TRUE, dist |-> difference(l_floor, p_floor)]
        ELSE IF \/ l_dir = "Down" /\ p_dir = "Down" /\ l_floor > p_floor
                \/ l_dir = "Up" /\ p_dir = "Up" /\ l_floor < p_floor
        THEN [ok |-> TRUE, dist |-> difference(l_floor, p_floor)]
        ELSE [ok |-> TRUE,
              dist |-> difference(l_floor, last_target)
                       + difference(last_target, p_floor)]

\* Lift::distance_from
distance_from(l, passenger) ==
    LET p_floor == passenger.from_floor
        p_dir == IF passenger.to_floor > p_floor THEN "Up" ELSE "Down"
        l_floor == floor[l]
        l_dir == direction[l]
        ts == targets[l]
        last_target == IF l_dir = "Up" THEN ts[Len(ts)] ELSE ts[1]
    IN  IF ~InfoOk(l) \/ "targets" \in poisoned[l]
        THEN [ok |-> FALSE, dist |-> 0]
        ELSE IF l_dir = "Stopped" \/ ts = <<>>
        THEN [ok |-> TRUE, dist |-> difference(l_floor, p_floor)]
        ELSE IF \/ l_dir = "Down" /\ p_dir = "Down" /\ l_floor > p_floor
                \/ l_dir = "Up" /\ p_dir = "Up" /\ l_floor < p_floor
        THEN [ok |-> TRUE, dist |-> difference(l_floor, p_floor)]
        ELSE [ok |-> TRUE,
              dist |-> difference(l_floor, last_target)
                       + difference(last_target, p_floor)]

\* best_lift's loop without `closest = dist`.
RECURSIVE best_lift_loop_stale(_, _, _, _, _)
best_lift_loop_stale(passenger, indices, i, best, closest) ==
    IF i > Len(indices)
    THEN best
    ELSE LET index == indices[i]
             d == distance_from(index, passenger)
         IN  IF d.ok /\ d.dist < closest
             THEN best_lift_loop_stale(passenger, indices, i + 1, index, closest)
             ELSE best_lift_loop_stale(passenger, indices, i + 1, best, closest)

\* The loop of best_lift over the shuffled indices, from position i on.
RECURSIVE best_lift_loop(_, _, _, _, _)
best_lift_loop(passenger, indices, i, best, closest) ==
    IF i > Len(indices)
    THEN best
    ELSE LET index == indices[i]
             d == distance_from(index, passenger)
         IN  IF d.ok /\ d.dist < closest
             THEN best_lift_loop(passenger, indices, i + 1, index, d.dist)
             ELSE best_lift_loop(passenger, indices, i + 1, best, closest)

\* Building::best_lift: it returns Ok(best) on every path.
best_lift(passenger, indices) ==
    [ok |-> TRUE, index |-> best_lift_loop(passenger, indices, 1, 0, I32Max)]

\* indices.shuffle: every order of the lift indices.
Shuffles ==
    {s \in [1 .. lift_count -> Lifts] :
        \A i, j \in 1 .. lift_count : s[i] = s[j] => i = j}

\* Lift::add_target on a queue ts: the write, then get_info.
add_target(l, ts, target) ==
    IF "targets" \in poisoned[l]
    THEN [ok |-> FALSE, targets |-> ts]
    ELSE [ok |-> InfoOk(l), targets |-> binary_add(ts, target, "i32")]

\* add_passenger without its add_target call.
add_passenger_no_target(l, passenger) ==
    IF "passengers" \in poisoned[l]
    THEN [ok |-> FALSE, passengers |-> passengers[l], targets |-> targets[l]]
    ELSE [ok |-> InfoOk(l),
          passengers |-> binary_add(passengers[l], passenger, "Passenger"),
          targets |-> targets[l]]

\* Lift::add_passenger
add_passenger(l, passenger) ==
    IF "passengers" \in poisoned[l]
    THEN [ok |-> FALSE, passengers |-> passengers[l], targets |-> targets[l]]
    ELSE LET at == add_target(l, targets[l], passenger.from_floor)
         IN  [ok |-> at.ok,
              passengers |-> binary_add(passengers[l], passenger, "Passenger"),
              targets |-> at.targets]

\* Building::respond, called by the request source. lifts[index] panics
\* when the building has no lift.
Respond(passenger, indices) ==
    /\ budget > 0
    /\ ~panicked
    /\ budget' = budget - 1
    /\ LET b == best_lift(passenger, indices)
       IN  IF ~b.ok
           THEN /\ ret' = [op |-> "respond", ok |-> FALSE, index |-> -1,
                           passenger |-> passenger, err |-> "NoLiftAvailable"]
                /\ UNCHANGED <<passengers, targets, panicked>>
           ELSE IF b.index \notin Lifts
           THEN /\ panicked' = TRUE
                /\ ret' = [op |-> "respond", ok |-> FALSE, index |-> -1,
                           passenger |-> passenger, err |-> "panic"]
                /\ UNCHANGED <<passengers, targets>>
           ELSE LET r == add_passenger(b.index, passenger)
                IN  /\ passengers' = [passengers EXCEPT ![b.index] = r.passengers]
                    /\ targets' = [targets EXCEPT ![b.index] = r.targets]
                    /\ ret' = [op |-> "respond", ok |-> r.ok,
                               index |-> IF r.ok THEN b.index ELSE -1,
                               passenger |-> passenger,
                               err |-> IF r.ok THEN "none" ELSE "LockFailure"]
                    /\ UNCHANGED panicked
    /\ UNCHANGED <<held, prog, lift_count, floor, direction, doors_open, pc, tgt, ldir,
                   poisoned>>

\* ---- reporting ----

\* Building::abs_floor
abs_floor(f) ==
    LET value == f - BottomFloor
    IN  IF value < 0 THEN 0 ELSE value

\* label without the doors-open override.
label_no_doors(l) ==
    LET symbol == CASE direction[l] = "Up" -> "UpArrow"
                    [] direction[l] = "Down" -> "DownArrow"
                    [] direction[l] = "Stopped" -> " "
    IN  <<floor[l], symbol>>

\* Lift::label: format!("{} {}", floor, symbol) as the pair it is made of.
label(l) ==
    LET symbol == CASE direction[l] = "Up" -> "UpArrow"
                    [] direction[l] = "Down" -> "DownArrow"
                    [] direction[l] = "Stopped" -> " "
    IN  <<floor[l], IF doors_open[l] THEN "LeftRightArrow" ELSE symbol>>

\* Building::data: one bar (value, label) per lift, or the first lock error.
data ==
    IF \A l \in Lifts : InfoOk(l)
    THEN [op |-> "data", ok |-> TRUE,
          bars |-> [l \in Lifts |-> <<abs_floor(floor[l]), label(l)>>]]
    ELSE [op |-> "data", ok |-> FALSE, bars |-> <<>>]

Data ==
    /\ ~panicked
    /\ ret' = data
    /\ UNCHANGED <<held, prog, lift_count, floor, direction, doors_open, passengers,
                   targets, pc, tgt, ldir, poisoned, budget, panicked>>

\* ---- a lift's control loop (start_threads) ----

\* next_target that answers an empty queue with the lift's own floor.
next_target_stay(l) ==
    LET ts == targets[l]
        s == binary_search(ts, floor[l], "i32")
        dir == direction[l]
    IN  IF "targets" \in poisoned[l] \/ ~InfoOk(l)
        THEN [ok |-> FALSE, target |-> 0, direction |-> dir]
        ELSE IF ts = <<>>
        THEN [ok |-> TRUE, target |-> floor[l], direction |-> dir]
        ELSE IF s.found
        THEN [ok |-> TRUE, target |-> ts[s.pos + 1], direction |-> dir]
        ELSE IF s.pos = Len(ts)
        THEN [ok |-> TRUE, target |-> ts[s.pos], direction |-> "Down"]
        ELSE IF s.pos = 0
        THEN [ok |-> TRUE, target |-> ts[1], direction |-> "Up"]
        ELSE IF dir = "Up"
        THEN [ok |-> TRUE, target |-> ts[s.pos + 1], direction |-> dir]
        ELSE [ok |-> TRUE, target |-> ts[s.pos], direction |-> dir]

\* next_target that, between two queued floors, goes to the upper one
\* whatever the direction.
next_target_upper(l) ==
    LET ts == targets[l]
        s == binary_search(ts, floor[l], "i32")
        pos == s.pos
        dir == direction[l]
    IN  IF "targets" \in poisoned[l] \/ ts = <<>> \/ ~InfoOk(l)
        THEN [ok |-> FALSE, target |-> 0, direction |-> dir]
        ELSE IF s.found
        THEN [ok |-> TRUE, target |-> ts[pos + 1],
              direction |-> IF dir = "Down" /\ pos = 0 THEN "Up" ELSE dir]
        ELSE IF pos = Len(ts)
        THEN [ok |-> TRUE, target |-> ts[pos], direction |-> "Down"]
        ELSE IF pos = 0
        THEN [ok |-> TRUE, target |-> ts[1], direction |-> "Up"]
        ELSE [ok |-> TRUE, target |-> ts[pos + 1], direction |-> dir]

\* next_target that turns Down as soon as a queued floor lies below.
next_target_reverse(l) ==
    LET ts == targets[l]
        s == binary_search(ts, floor[l], "i32")
        pos == s.pos
        dir == direction[l]
    IN  IF "targets" \in poisoned[l] \/ ts = <<>> \/ ~InfoOk(l)
        THEN [ok |-> FALSE, target |-> 0, direction |-> dir]
        ELSE IF s.found
        THEN [ok |-> TRUE, target |-> ts[pos + 1],
              direction |-> IF dir = "Down" /\ pos = 0 THEN "Up" ELSE dir]
        ELSE IF pos = 0
        THEN [ok |-> TRUE, target |-> ts[1], direction |-> "Up"]
        ELSE [ok |-> TRUE, target |-> ts[pos], direction |-> "Down"]

\* Lift::next_target, which holds the read lock on targets throughout. Every
\* Err is returned before any write; after get_info has succeeded
\* set_direction cannot fail.
next_target(l) ==
    LET ts == targets[l]
        s == binary_search(ts, floor[l], "i32")
        x == s.pos
        pos == s.pos
        dir == direction[l]
    IN  IF "targets" \in poisoned[l] \/ ts = <<>> \/ ~InfoOk(l)
        THEN [ok |-> FALSE, target |-> 0, direction |-> dir]
        ELSE IF s.found
        THEN [ok |-> TRUE, target |-> ts[x + 1],
              direction |-> IF dir = "Down" /\ x = 0 THEN "Up"
                            ELSE IF dir = "Up" /\ x = Len(ts) THEN "Down"
                            ELSE dir]
        ELSE IF pos = Len(ts)
        THEN [ok |-> TRUE, target |-> ts[(pos - 1) + 1], direction |-> "Down"]
        ELSE IF pos = 0
        THEN [ok |-> TRUE, target |-> ts[1], direction |-> "Up"]
        ELSE IF dir = "Up"
        THEN [ok |-> TRUE, target |-> ts[pos + 1], direction |-> dir]
        ELSE [ok |-> TRUE, target |-> ts[(pos - 1) + 1], direction |-> dir]

\* The loop's `if let Ok(target) = arc.next_target()`.
NextTarget(l) ==
    /\ pc[l] = "next"
    /\ LET r == next_target(l)
       IN  /\ direction' = [direction EXCEPT ![l] = r.direction]
           /\ tgt' = [tgt EXCEPT ![l] = r.target]
           /\ pc' = [pc EXCEPT ![l] = IF r.ok THEN "move" ELSE "stop"]
    /\ ret' = NoRet
    /\ UNCHANGED <<held, prog, lift_count, floor, doors_open, passengers, targets, ldir,
                   poisoned, budget, panicked>>

\* Lift::set_direction, Lift::set_floor, Lift::set_doors_open: the write
\* lock on the field, the write, then get_info.
set_field(l, field) ==
    [written |-> field \notin poisoned[l],
     ok |-> field \notin poisoned[l] /\ InfoOk(l)]

\* The loop's else branch: set_direction(Stopped)?, then wait_millis(100).
\* An Err ends the thread.
Idle(l) ==
    /\ pc[l] = "stop"
    /\ LET r == set_field(l, "direction")
       IN  /\ direction' = [direction EXCEPT
                               ![l] = IF r.written THEN "Stopped" ELSE @]
           /\ pc' = [pc EXCEPT ![l] = IF r.ok THEN "next" ELSE "dead"]
    /\ ret' = NoRet
    /\ UNCHANGED <<held, prog, lift_count, floor, doors_open, passengers, targets, tgt,
                   ldir, poisoned, budget, panicked>>

\* Lift::move_towards up to wait_millis(MS_PER_FLOOR): get_info, then the
\* direction is set toward the target. The local `direction` keeps the value
\* read before the write.
MoveTowards(l) ==
    /\ pc[l] = "move"
    /\ IF ~InfoOk(l)
       THEN /\ pc' = [pc EXCEPT ![l] = "dead"]
            /\ UNCHANGED <<direction, ldir>>
       ELSE /\ ldir' = [ldir EXCEPT ![l] = direction[l]]
            /\ direction' = [direction EXCEPT
                                ![l] = IF tgt[l] > floor[l] THEN "Up"
                                       ELSE IF tgt[l] < floor[l] THEN "Down"
                                       ELSE @]
            /\ pc' = [pc EXCEPT ![l] = "travel"]
    /\ ret' = NoRet
    /\ UNCHANGED <<held, prog, lift_count, floor, doors_open, passengers, targets, tgt,
                   poisoned, budget, panicked>>

\* move_towards that stays where it is on the way Up.
next_floor_stuck(l) ==
    CASE ldir[l] = "Up" -> floor[l]
      [] ldir[l] = "Down" -> floor[l] - 1
      [] ldir[l] = "Stopped" -> floor[l]

\* The floor move_towards hands to reach_floor: `match direction`.
next_floor(l) ==
    CASE ldir[l] = "Up" -> floor[l] + 1
      [] ldir[l] = "Down" -> floor[l] - 1
      [] ldir[l] = "Stopped" -> floor[l]

\* Lift::reach_floor, its first statement: set_floor(new_floor)?. The
\* locals `target` and `direction` of the loop and of move_towards are not
\* read after this call is made.
SetFloor(l) ==
    /\ pc[l] = "travel"
    /\ LET r == set_field(l, "floor")
       IN  /\ floor' = [floor EXCEPT ![l] = IF r.written THEN next_floor(l) ELSE @]
           /\ pc' = [pc EXCEPT ![l] = IF r.ok THEN "arrive" ELSE "dead"]
    /\ tgt' = [tgt EXCEPT ![l] = 0]
    /\ ldir' = [ldir EXCEPT ![l] = "Stopped"]
    /\ ret' = NoRet
    /\ UNCHANGED <<held, prog, lift_count, direction, doors_open, passengers, targets,
                   poisoned, budget, panicked>>

\* reach_floor's loop with boarding that does not queue the to_floor.
RECURSIVE board_loop_no_target(_, _, _, _, _, _)
board_loop_no_target(l, new_floor, ps, ts, i, to_remove) ==
    IF i > Len(ps)
    THEN [ok |-> TRUE, passengers |-> ps, targets |-> ts,
          to_remove |-> to_remove]
    ELSE LET boards == ps[i].from_floor = new_floor
             ps1 == IF boards THEN [ps EXCEPT ![i].riding = TRUE] ELSE ps
         IN  board_loop_no_target(l, new_floor, ps1, ts, i + 1,
                                  IF ps1[i].to_floor = new_floor /\ ps1[i].riding
                                  THEN Append(to_remove, i - 1)
                                  ELSE to_remove)

\* reach_floor's loop that marks whoever has new_floor as to_floor, riding
\* or not.
RECURSIVE board_loop_drop_waiting(_, _, _, _, _, _)
board_loop_drop_waiting(l, new_floor, ps, ts, i, to_remove) ==
    IF i > Len(ps)
    THEN [ok |-> TRUE, passengers |-> ps, targets |-> ts,
          to_remove |-> to_remove]
    ELSE LET boards == ps[i].from_floor = new_floor
             ps1 == IF boards THEN [ps EXCEPT ![i].riding = TRUE] ELSE ps
             at == IF boards THEN add_target(l, ts, ps[i].to_floor)
                   ELSE [ok |-> TRUE, targets |-> ts]
         IN  IF ~at.ok
             THEN [ok |-> FALSE, passengers |-> ps1, targets |-> at.targets,
                   to_remove |-> to_remove]
             ELSE board_loop_drop_waiting(l, new_floor, ps1, at.targets, i + 1,
                                          IF ps1[i].to_floor = new_floor
                                          THEN Append(to_remove, i - 1)
                                          ELSE to_remove)

\* reach_floor's loop over the passengers from index i on (1-based here):
\* whoever waits at new_floor boards and their to_floor is queued; whoever
\* rides to new_floor is marked. add_target's Err leaves the loop at once.
RECURSIVE board_loop(_, _, _, _, _, _)
board_loop(l, new_floor, ps, ts, i, to_remove) ==
    IF i > Len(ps)
    THEN [ok |-> TRUE, passengers |-> ps, targets |-> ts,
          to_remove |-> to_remove]
    ELSE LET boards == ps[i].from_floor = new_floor
             ps1 == IF boards THEN [ps EXCEPT ![i].riding = TRUE] ELSE ps
             at == IF boards THEN add_target(l, ts, ps[i].to_floor)
                   ELSE [ok |-> TRUE, targets |-> ts]
         IN  IF ~at.ok
             THEN [ok |-> FALSE, passengers |-> ps1, targets |-> at.targets,
                   to_remove |-> to_remove]
             ELSE board_loop(l, new_floor, ps1, at.targets, i + 1,
                             IF ps1[i].to_floor = new_floor /\ ps1[i].riding
                             THEN Append(to_remove, i - 1)
                             ELSE to_remove)

\* reach_floor's removal that removes nobody.
remove_all_none(ps, to_remove) == ps

\* `for i in to_remove.iter().rev() { passengers.remove(*i) }`
RECURSIVE remove_all(_, _)
remove_all(ps, to_remove) ==
    IF to_remove = <<>>
    THEN ps
    ELSE remove_all(VecRemove(ps, to_remove[Len(to_remove)]),
                    SubSeq(to_remove, 1, Len(to_remove) - 1))

\* reach_floor that leaves the floor it arrives at in the queue.
reach_floor_keep(l) ==
    LET new_floor == floor[l]
        s == binary_search(targets[l], new_floor, "i32")
        b == board_loop(l, new_floor, passengers[l], targets[l], 1, <<>>)
    IN  IF "passengers" \in poisoned[l] \/ "targets" \in poisoned[l]
        THEN [ok |-> FALSE, passengers |-> passengers[l],
              targets |-> targets[l], open_doors |-> FALSE]
        ELSE IF ~b.ok
        THEN [ok |-> FALSE, passengers |-> b.passengers,
              targets |-> b.targets, open_doors |-> s.found]
        ELSE [ok |-> TRUE, passengers |-> remove_all(b.passengers, b.to_remove),
              targets |-> b.targets, open_doors |-> s.found]

\* reach_floor that has the doors opened at every arrival.
reach_floor_doors(l) ==
    LET new_floor == floor[l]
        s == binary_search(targets[l], new_floor, "i32")
        ts == IF s.found THEN VecRemove(targets[l], s.pos) ELSE targets[l]
        b == board_loop(l, new_floor, passengers[l], ts, 1, <<>>)
    IN  IF "passengers" \in poisoned[l] \/ "targets" \in poisoned[l]
        THEN [ok |-> FALSE, passengers |-> passengers[l],
              targets |-> targets[l], open_doors |-> FALSE]
        ELSE IF ~b.ok
        THEN [ok |-> FALSE, passengers |-> b.passengers,
              targets |-> b.targets, open_doors |-> TRUE]
        ELSE [ok |-> TRUE, passengers |-> remove_all(b.passengers, b.to_remove),
              targets |-> b.targets, open_doors |-> TRUE]

\* reach_floor that takes the first floor off the queue, not the one found.
reach_floor_first(l) ==
    LET new_floor == floor[l]
        s == binary_search(targets[l], new_floor, "i32")
        ts == IF s.found THEN VecRemove(targets[l], 0) ELSE targets[l]
        b == board_loop(l, new_floor, passengers[l], ts, 1, <<>>)
    IN  IF "passengers" \in poisoned[l] \/ "targets" \in poisoned[l]
        THEN [ok |-> FALSE, passengers |-> passengers[l],
              targets |-> targets[l], open_doors |-> FALSE]
        ELSE IF ~b.ok
        THEN [ok |-> FALSE, passengers |-> b.passengers,
              targets |-> b.targets, open_doors |-> s.found]
        ELSE [ok |-> TRUE, passengers |-> remove_all(b.passengers, b.to_remove),
              targets |-> b.targets, open_doors |-> s.found]

\* reach_floor between passengers.write() and drop(passengers).
reach_floor(l) ==
    LET new_floor == floor[l]
        s == binary_search(targets[l], new_floor, "i32")
        ts == IF s.found THEN VecRemove(targets[l], s.pos) ELSE targets[l]
        b == board_loop(l, new_floor, passengers[l], ts, 1, <<>>)
    IN  IF "passengers" \in poisoned[l] \/ "targets" \in poisoned[l]
        THEN [ok |-> FALSE, passengers |-> passengers[l],
              targets |-> targets[l], open_doors |-> FALSE]
        ELSE IF ~b.ok
        THEN [ok |-> FALSE, passengers |-> b.passengers,
              targets |-> b.targets, open_doors |-> s.found]
        ELSE [ok |-> TRUE, passengers |-> remove_all(b.passengers, b.to_remove),
              targets |-> b.targets, open_doors |-> s.found]

\* The arrival: the target is taken off the queue, passengers board and
\* alight. Without doors to open, the get_info calls that end reach_floor
\* and move_towards follow, then wait_millis(100).
Arrive(l) ==
    /\ pc[l] = "arrive"
    /\ LET r == reach_floor(l)
       IN  /\ passengers' = [passengers EXCEPT ![l] = r.passengers]
           /\ targets' = [targets EXCEPT ![l] = r.targets]
           /\ pc' = [pc EXCEPT ![l] = IF ~r.ok THEN "dead"
                                      ELSE IF r.open_doors THEN "open"
                                      ELSE IF InfoOk(l) THEN "next"
                                      ELSE "dead"]
    /\ ret' = NoRet
    /\ UNCHANGED <<held, prog, lift_count, floor, direction, doors_open, tgt, ldir,
                   poisoned, budget, panicked>>

\* Lift::open_doors: set_doors_open(true)?, then the two waits.
OpenDoors(l) ==
    /\ pc[l] = "open"
    /\ LET r == set_field(l, "doors_open")
       IN  /\ doors_open' = [doors_open EXCEPT ![l] = IF r.written THEN TRUE ELSE @]
           /\ pc' = [pc EXCEPT ![l] = IF r.ok THEN "close" ELSE "dead"]
    /\ ret' = NoRet
    /\ UNCHANGED <<held, prog, lift_count, floor, direction, passengers, targets, tgt,
                   ldir, poisoned, budget, panicked>>

\* open_doors that goes on without closing the doors.
CloseDoors_leave(l) ==
    /\ pc[l] = "close"
    /\ pc' = [pc EXCEPT ![l] = IF set_field(l, "doors_open").ok
                               THEN "next" ELSE "dead"]
    /\ ret' = NoRet
    /\ UNCHANGED <<held, prog, lift_count, floor, direction, doors_open, passengers,
                   targets, tgt, ldir, poisoned, budget, panicked>>

\* set_doors_open(false)?, the closing get_info calls, wait_millis(100).
CloseDoors(l) ==
    /\ pc[l] = "close"
    /\ LET r == set_field(l, "doors_open")
       IN  /\ doors_open' = [doors_open EXCEPT ![l] = IF r.written THEN FALSE ELSE @]
           /\ pc' = [pc EXCEPT ![l] = IF r.ok THEN "next" ELSE "dead"]
    /\ ret' = NoRet
    /\ UNCHANGED <<held, prog, lift_count, floor, direction, passengers, targets, tgt,
                   ldir, poisoned, budget, panicked>>

\* One step of lift l's control thread.
LiftStep(l) ==
    \/ NextTarget(l)
    \/ Idle(l)
    \/ MoveTowards(l)
    \/ SetFloor(l)
    \/ Arrive(l)
    \/ OpenDoors(l)
    \/ CloseDoors(l)

\* ---- lock failure ----

\* The lock of one field of one lift becomes poisoned: from then on every
\* read() and write() of it returns Err.
Poison(l, field) ==
    /\ ~panicked
    /\ field \notin poisoned[l]
    /\ poisoned' = [poisoned EXCEPT ![l] = @ \cup {field}]
    /\ ret' = NoRet
    /\ UNCHANGED <<held, prog, lift_count, floor, direction, doors_open, passengers,
                   targets, pc, tgt, ldir, budget, panicked>>

\* ---- specifications ----

Next ==
    \/ \E p \in PassengerRequests, indices \in Shuffles : Respond(p, indices)
    \/ Data
    \/ \E l \in Lifts : LiftStep(l)

Spec == Init /\ [][Next]_vars

\* One lift and one request, every control thread scheduled again and
\* again: a spawned thread runs for the life of the process and each of its
\* steps ends after a fixed sleep at most.
InitOne == InitWith({1}, 1)

Fairness == \A l \in 0 .. (MaxLifts - 1) : WF_vars(l \in Lifts /\ LiftStep(l))

LiveOne == InitOne /\ [][Next]_vars /\ Fairness

\* Every building and every finite sequence of requests of Spec, with every
\* control thread scheduled again and again.
LiveAll == Init /\ [][Next]_vars /\ Fairness

\* The building under lock failures, with the requests left to one.
FaultRequests == 1

MaxFaults == 2

PoisonedLocks == {<<l, f>> \in Lifts \X Fields : f \in poisoned[l]}

NextFault ==
    \/ Next
    \/ \E l \in Lifts, field \in Fields :
          Cardinality(PoisonedLocks) < MaxFaults /\ Poison(l, field)

SpecFault == InitWith(0 .. MaxLifts, FaultRequests) /\ [][NextFault]_vars

\* Sanity of the model: the shapes of the values, a floor at most one past
\* the building's ends, the passengers in the order binary_search needs.
TypeOK ==
    /\ lift_count \in 0 .. MaxLifts
    /\ \A l \in Lifts :
        /\ floor[l] \in (BottomFloor - 1) .. (TopFloor + 1)
        /\ direction[l] \in Direction
        /\ doors_open[l] \in BOOLEAN
        /\ pc[l] \in {"next", "stop", "move", "travel", "arrive", "open",
                      "close", "dead"}
        /\ \A i \in 1 .. Len(passengers[l]) - 1 :
              ~PassengerLt(passengers[l][i + 1], passengers[l][i])

\* ---- the locks (Lift's RwLock fields) ----

\* Lock level: thread t < lift_count is the control thread of lift t, the
\* other threads are callers of Building::respond and Building::data.
Threads == 0 .. (LockThreads - 1)

Callers == lift_count .. (LockThreads - 1)

\* `self.<f>.read()` / `self.<f>.write()` of lift l, and the guard's drop.
Acq(l, f, m) == [a |-> "acq", l |-> l, f |-> f, m |-> m]

Rel(l, f, m) == [a |-> "rel", l |-> l, f |-> f, m |-> m]

\* `*self.<f>.read()?`: the guard is a temporary of its statement.
Read(l, f) == <<Acq(l, f, "r"), Rel(l, f, "r")>>

\* A branch of the code: one of alts is what is done next.
Alt(alts) == <<[a |-> "alt", alts |-> alts]>>

\* `if cond { s }`
Opt(s) == Alt({s, <<>>})

\* s, k times over.
RECURSIVE Times(_, _)
Times(s, k) == IF k = 0 THEN <<>> ELSE s \o Times(s, k - 1)

\* ss[1] \o ss[2] \o ...
RECURSIVE Concat(_)
Concat(ss) == IF ss = <<>> THEN <<>> ELSE Head(ss) \o Concat(Tail(ss))

\* Lift::get_info: floor, direction, doors_open are read one after another.
get_info_locks(l) ==
    Read(l, "floor") \o Read(l, "direction") \o Read(l, "doors_open")

\* Lift::set_floor, set_direction, set_doors_open and add_target: write(),
\* the write, drop, then get_info.
set_locks(l, f) == <<Acq(l, f, "w"), Rel(l, f, "w")>> \o get_info_locks(l)

add_target_locks(l) == set_locks(l, "targets")

\* add_passenger that takes targets before passengers.
add_passenger_locks_swapped(l) ==
    <<Acq(l, "targets", "w"), Acq(l, "passengers", "w"),
      Rel(l, "targets", "w")>>
    \o get_info_locks(l)
    \o <<Rel(l, "passengers", "w")>> \o get_info_locks(l)

\* Lift::add_passenger: add_target is called under the passengers guard.
add_passenger_locks(l) ==
    <<Acq(l, "passengers", "w")>> \o add_target_locks(l)
    \o <<Rel(l, "passengers", "w")>> \o get_info_locks(l)

\* Lift::open_doors
open_doors_locks(l) ==
    set_locks(l, "doors_open") \o set_locks(l, "doors_open")
    \o get_info_locks(l)

\* Lift::reach_floor: set_floor; passengers.write(), targets.write(),
\* drop(targets); add_target for whoever boards; drop(passengers);
\* open_doors if flagged; get_info.
reach_floor_locks(l) ==
    set_locks(l, "floor")
    \o <<Acq(l, "passengers", "w"), Acq(l, "targets", "w"),
         Rel(l, "targets", "w")>>
    \o Times(Opt(add_target_locks(l)), MaxBoarders)
    \o <<Rel(l, "passengers", "w")>>
    \o Opt(open_doors_locks(l))
    \o get_info_locks(l)

\* Lift::next_target: the targets guard lives until the return, over
\* get_info and set_direction.
next_target_locks(l) ==
    <<Acq(l, "targets", "r")>>
    \o Alt({<<Rel(l, "targets", "r"), [a |-> "ret", ok |-> FALSE]>>,
            get_info_locks(l) \o Opt(set_locks(l, "direction"))
               \o <<Rel(l, "targets", "r"), [a |-> "ret", ok |-> TRUE]>>})

\* Lift::move_towards
move_towards_locks(l) ==
    get_info_locks(l) \o Opt(set_locks(l, "direction"))
    \o reach_floor_locks(l) \o get_info_locks(l)

\* Lift::distance_from: get_info, then targets.read() until the return.
distance_from_locks(l) == get_info_locks(l) \o Read(l, "targets")

\* Lift::label
label_locks(l) == get_info_locks(l)

\* Building::respond: best_lift asks every lift in a shuffled order, then
\* add_passenger on the lift chosen.
respond_locks(order) ==
    Concat([i \in 1 .. lift_count |-> distance_from_locks(order[i])])
    \o Alt({add_passenger_locks(best) : best \in Lifts})

\* Building::data
data_locks ==
    Concat([i \in 1 .. lift_count |->
               get_info_locks(i - 1) \o label_locks(i - 1)])

\* What a thread that is in no call does next: a control thread the next
\* round of its loop, a caller a call of respond or of data.
Scripts(t) ==
    IF t \in Lifts
    THEN {next_target_locks(t)}
    ELSE {respond_locks(order) : order \in Shuffles} \cup {data_locks}

LocksInit ==
    /\ lift_count \in 1 .. MaxLifts
    /\ floor = [l \in Lifts |-> 0]
    /\ direction = [l \in Lifts |-> "Stopped"]
    /\ doors_open = [l \in Lifts |-> FALSE]
    /\ passengers = [l \in Lifts |-> <<>>]
    /\ targets = [l \in Lifts |-> <<>>]
    /\ pc = [l \in Lifts |-> "next"]
    /\ tgt = [l \in Lifts |-> 0]
    /\ ldir = [l \in Lifts |-> "Stopped"]
    /\ poisoned = [l \in Lifts |-> {}]
    /\ budget = 0
    /\ panicked = FALSE
    /\ ret = NoRet
    /\ held = {}
    /\ prog = [t \in Threads |-> <<>>]

\* A thread starts its next call.
Call(t) ==
    /\ prog[t] = <<>>
    /\ \E s \in Scripts(t) : prog' = [prog EXCEPT ![t] = s]
    /\ UNCHANGED <<held, lift_count, floor, direction, doors_open,
                   passengers, targets, pc, tgt, ldir, poisoned, budget,
                   panicked, ret>>

\* A thread takes one side of a branch.
Branch(t) ==
    /\ prog[t] # <<>>
    /\ Head(prog[t]).a = "alt"
    /\ \E s \in Head(prog[t]).alts :
          prog' = [prog EXCEPT ![t] = s \o Tail(@)]
    /\ UNCHANGED <<held, lift_count, floor, direction, doors_open,
                   passengers, targets, pc, tgt, ldir, poisoned, budget,
                   panicked, ret>>

\* The loop's `if let Ok(target) = arc.next_target()`: move_towards, or
\* else set_direction(Stopped).
LoopBody(t) ==
    /\ prog[t] # <<>>
    /\ Head(prog[t]).a = "ret"
    /\ prog' = [prog EXCEPT ![t] = IF Head(@).ok THEN move_towards_locks(t)
                                   ELSE set_locks(t, "direction")]
    /\ UNCHANGED <<held, lift_count, floor, direction, doors_open,
                   passengers, targets, pc, tgt, ldir, poisoned, budget,
                   panicked, ret>>

\* RwLock: a write guard excludes every other guard of the lock, a read
\* guard excludes write guards.
Free(o) ==
    IF o.m = "w"
    THEN \A h \in held : ~(h.l = o.l /\ h.f = o.f)
    ELSE \A h \in held : ~(h.l = o.l /\ h.f = o.f /\ h.m = "w")

Guard(t, o) == [t |-> t, l |-> o.l, f |-> o.f, m |-> o.m]

\* read() or write() returns.
Acquire(t) ==
    /\ prog[t] # <<>>
    /\ Head(prog[t]).a = "acq"
    /\ Free(Head(prog[t]))
    /\ held' = held \cup {Guard(t, Head(prog[t]))}
    /\ prog' = [prog EXCEPT ![t] = Tail(@)]
    /\ UNCHANGED <<lift_count, floor, direction, doors_open, passengers,
                   targets, pc, tgt, ldir, poisoned, budget, panicked, ret>>

\* A guard is dropped.
Release(t) ==
    /\ prog[t] # <<>>
    /\ Head(prog[t]).a = "rel"
    /\ held' = held \ {Guard(t, Head(prog[t]))}
    /\ prog' = [prog EXCEPT ![t] = Tail(@)]
    /\ UNCHANGED <<lift_count, floor, direction, doors_open, passengers,
                   targets, pc, tgt, ldir, poisoned, budget, panicked, ret>>

NextLocks ==
    \E t \in Threads :
       \/ Call(t)
       \/ Branch(t)
       \/ LoopBody(t)
       \/ Acquire(t)
       \/ Release(t)

SpecLocks == LocksInit /\ [][NextLocks]_vars

\* ---- C1 ----
\* A step of respond is the one step that spends the request budget.
RespondStep == budget' # budget

\* C1: a respond(p) that returns lift index i adds p (not riding) to lift
\* i's passengers and p.from_floor to lift i's targets and nothing else: the
\* other lifts' passengers and targets, and every lift's floor, direction
\* and doors_open, are as before.
C1_RespondEffect ==
    [][(RespondStep /\ ret'.ok) =>
        LET i == ret'.index
            p == ret'.passenger
        IN  /\ i \in Lifts
            /\ ~p.riding
            /\ Range(passengers'[i]) = Range(passengers[i]) \cup {p}
            /\ Range(targets'[i]) = Range(targets[i]) \cup {p.from_floor}
            /\ \A j \in Lifts \ {i} :
                  passengers'[j] = passengers[j] /\ targets'[j] = targets[j]
            /\ floor' = floor
            /\ direction' = direction
            /\ doors_open' = doors_open]_vars

\* respond has just returned a lift, in a building where another lift has a
\* passenger and a target of its own.
C1_Witness ==
    /\ ret.op = "respond"
    /\ ret.ok
    /\ ret.passenger \in Range(passengers[ret.index])
    /\ \E j \in Lifts \ {ret.index} :
          passengers[j] # <<>> /\ targets[j] # <<>>

\* ---- C2 ----
\* C2: the lift respond selects has the least estimated distance among all
\* lifts in the state of the call, whatever the shuffled order; so a lift
\* whose estimate is strictly below every other's is the one selected.
C2_MinimumEstimate ==
    [][(RespondStep /\ ret'.ok) =>
        LET p == ret'.passenger
        IN  /\ \A j \in Lifts :
                  distance_from(ret'.index, p).dist <= distance_from(j, p).dist
            /\ \A j \in Lifts :
                  (\A k \in Lifts \ {j} :
                      distance_from(j, p).dist < distance_from(k, p).dist)
                  => ret'.index = j]_vars

\* respond has selected lift 1, which stands nearer to the pickup floor
\* than lift 0 (respond moves no lift).
C2_Witness ==
    /\ ret.op = "respond"
    /\ ret.ok
    /\ ret.index = 1
    /\ direction[0] = "Stopped"
    /\ direction[1] = "Stopped"
    /\ difference(floor[1], ret.passenger.from_floor)
         < difference(floor[0], ret.passenger.from_floor)

\* ---- C3 ----
\* The request (f, t) has just been accepted.
Submitted(f, t) ==
    ret.op = "respond" /\ ret.ok /\ ret.passenger = NewPassenger(f, t)

\* C3: one lift (floor 0, Stopped, empty), one request (f, t) within the
\* building, the control loop scheduled fairly: the passenger is picked up
\* at f, and from some moment on the passenger set is empty and the lift
\* stands at t for good.
C3_EndToEnd ==
    \A f \in Floors, t \in Floors :
        /\ (Submitted(f, t) /\ f # t) ~>
              (floor[0] = f /\ passengers[0] = <<[NewPassenger(f, t)
                                                  EXCEPT !.riding = TRUE]>>)
        /\ Submitted(f, t) ~> [](passengers[0] = <<>> /\ floor[0] = t)

\* The one passenger has been dropped at the top floor and the lift idles
\* there.
C3_Witness ==
    /\ lift_count = 1
    /\ budget = 0
    /\ passengers[0] = <<>>
    /\ targets[0] = <<>>
    /\ floor[0] = TopFloor
    /\ direction[0] = "Stopped"
    /\ pc[0] = "next"

\* ---- C4 ----
\* C4: boarding invariant: in every state, every passenger of a lift with
\* riding = TRUE has their to_floor in that lift's target queue.
C4_BoardingInvariant ==
    \A l \in Lifts : \A i \in 1 .. Len(passengers[l]) :
        passengers[l][i].riding =>
            passengers[l][i].to_floor \in Range(targets[l])

\* A lift carries a riding passenger and has left the floor they boarded at.
C4_Witness ==
    \E l \in Lifts : \E i \in 1 .. Len(passengers[l]) :
        /\ passengers[l][i].riding
        /\ floor[l] # passengers[l][i].from_floor
        /\ pc[l] = "next"

\* ---- C5 ----
StrictlyAscending(v) == \A i \in 1 .. Len(v) - 1 : v[i] < v[i + 1]

\* C5: every lift's target queue is strictly ascending (so without
\* duplicates) in every state, and inserting a floor the queue holds leaves
\* the queue as it is.
C5_TargetsAscending ==
    \A l \in Lifts :
        /\ StrictlyAscending(targets[l])
        /\ \A f \in Range(targets[l]) :
              binary_add(targets[l], f, "i32") = targets[l]

\* respond has queued a pickup floor that the lift's queue already held as
\* the destination of a passenger riding in it.
C5_Witness ==
    /\ ret.op = "respond"
    /\ ret.ok
    /\ ret.passenger \in Range(passengers[ret.index])
    /\ \E i \in 1 .. Len(passengers[ret.index]) :
          /\ passengers[ret.index][i].riding
          /\ passengers[ret.index][i].to_floor = ret.passenger.from_floor
          /\ passengers[ret.index][i].from_floor # ret.passenger.from_floor

\* ---- C6 ----
\* C6: a lift's passenger set never holds two equal passengers, two
\* entries with the same (from_floor, to_floor, riding).
C6_NoEqualPassengers ==
    \A l \in Lifts : \A i, j \in 1 .. Len(passengers[l]) :
        i # j => passengers[l][i] # passengers[l][j]

\* ---- C7 ----
\* No lift could be evaluated for p: distance_from fails on every lift.
NoLiftEvaluated(p) == \A l \in Lifts : ~distance_from(l, p).ok

\* C7: respond fails with NoLiftAvailable exactly when no lift could be
\* evaluated, then adds no passenger and no target to any lift; and when
\* some lift is readable the lift it selects is a readable one.
C7_NoLiftAvailable ==
    [][RespondStep =>
        LET p == ret'.passenger
        IN  /\ (ret'.err = "NoLiftAvailable") <=> NoLiftEvaluated(p)
            /\ NoLiftEvaluated(p) =>
                  passengers' = passengers /\ targets' = targets
            /\ (~NoLiftEvaluated(p) /\ ret'.ok) =>
                  distance_from(ret'.index, p).ok]_vars

\* ---- C8 ----
\* A step of next_target by lift l: its thread leaves the head of the loop.
NextTargetStep(l) == pc[l] = "next" /\ pc'[l] # "next"

\* C8: next_target on an empty target queue fails, whatever the lift's
\* floor and direction, and leaves floor, direction, doors_open and the
\* queue as they were.
C8_NoTargets ==
    [][\A l \in Lifts :
        (NextTargetStep(l) /\ targets[l] = <<>>) =>
            /\ pc'[l] = "stop"
            /\ floor'[l] = floor[l]
            /\ direction'[l] = direction[l]
            /\ doors_open'[l] = doors_open[l]
            /\ targets'[l] = targets[l]]_vars

\* next_target has just failed on a lift that is away from floor 0 and
\* whose direction is still Up or Down.
C8_Witness ==
    \E l \in Lifts :
        /\ pc[l] = "stop"
        /\ targets[l] = <<>>
        /\ direction[l] # "Stopped"
        /\ floor[l] # 0

\* ---- C9 ----
Abs(n) == IF n < 0 THEN -n ELSE n

\* The estimate as the dispatcher's contract words it.
EstimatedDistance(l, p) ==
    LET goes_up == p.to_floor > p.from_floor
        direct == Abs(floor[l] - p.from_floor)
        e == IF direction[l] = "Up" THEN targets[l][Len(targets[l])]
             ELSE targets[l][1]
    IN  CASE direction[l] = "Stopped" \/ Len(targets[l]) = 0 -> direct
          [] OTHER ->
             IF \/ direction[l] = "Down" /\ ~goes_up /\ floor[l] > p.from_floor
                \/ direction[l] = "Up" /\ goes_up /\ floor[l] < p.from_floor
             THEN direct
             ELSE Abs(floor[l] - e) + Abs(e - p.from_floor)

\* C9: for every lift and every request, in every state, distance_from
\* returns the estimate of the contract: the plain floor difference for an
\* idle lift or one that meets the request on its way, and otherwise the
\* way to the lift's extreme target (last when Up, first when Down) plus
\* the way from there to the pickup floor.
C9_Estimate ==
    \A l \in Lifts : \A p \in PassengerRequests :
        /\ distance_from(l, p).ok
        /\ distance_from(l, p).dist = EstimatedDistance(l, p)

\* A lift going Down holds two targets and stands above the first: the
\* estimate for a request below it that goes Up runs over its first target.
C9_Witness ==
    \E l \in Lifts :
        /\ direction[l] = "Down"
        /\ Len(targets[l]) >= 2
        /\ floor[l] > targets[l][1]
        /\ \E p \in PassengerRequests :
              /\ p.to_floor > p.from_floor
              /\ distance_from(l, p).dist > difference(floor[l], p.from_floor)

DiffFloors == (0 - (TopFloor + 1)) .. (TopFloor + 1)

\* C11: for all floors x and y of a bounded range difference(x, y) equals
\* difference(y, x), is never negative, and is zero exactly when x = y; the
\* cases of the test difference_check come out as the test expects.
C11_Difference ==
    /\ \A x \in DiffFloors \cup {floor[l] : l \in Lifts} :
          \A y \in DiffFloors \cup {t : t \in UNION {Range(targets[l]) : l \in Lifts}} :
             /\ difference(x, y) = difference(y, x)
             /\ difference(x, y) >= 0
             /\ (difference(x, y) = 0) <=> (x = y)
    /\ difference(10, 10) = 0
    /\ difference(100, 10) = 90
    /\ difference(10, 100) = 90
    /\ difference(-2, 3) = 5

\* respond has just measured, through distance_from, a lift that stands
\* above the pickup floor and a lift that stands below it.
C11_Witness ==
    /\ ret.op = "respond"
    /\ ret.ok
    /\ \E i, j \in Lifts :
          /\ floor[i] > ret.passenger.from_floor
          /\ floor[j] < ret.passenger.from_floor

\* ---- C12 ----
\* C12: when the floor a lift stands on is in its queue, next_target returns
\* that floor; and if the floor is the last of the queue while the lift goes
\* Up, or the first while it goes Down, next_target reverses the direction.
C12_FloorInQueue ==
    [][\A l \in Lifts :
          (NextTargetStep(l) /\ floor[l] \in Range(targets[l])) =>
             /\ pc'[l] = "move"
             /\ tgt'[l] = floor[l]
             /\ (direction[l] = "Up" /\ targets[l][Len(targets[l])] = floor[l])
                   => direction'[l] = "Down"
             /\ (direction[l] = "Down" /\ targets[l][1] = floor[l])
                   => direction'[l] = "Up"]_vars

\* ---- C13 ----
\* The insertion position of lift l's floor in its queue: the number of
\* queued floors below it.
InsertionPos(l) == Cardinality({t \in Range(targets[l]) : t < floor[l]})

\* C13: when the floor of a lift is not in its non-empty queue and pos is
\* the floor's insertion position, next_target sets Up and returns the first
\* element if pos = 0, sets Down and returns the last element if pos is the
\* queue's length, and otherwise leaves the direction and returns the
\* element at pos (0-based) when Up, the element at pos - 1 when Down.
C13_FloorNotInQueue ==
    [][\A l \in Lifts :
          (/\ NextTargetStep(l)
           /\ targets[l] # <<>>
           /\ floor[l] \notin Range(targets[l])) =>
             LET ts == targets[l]
                 n == Len(ts)
                 pos == InsertionPos(l)
             IN  /\ pc'[l] = "move"
                 /\ pos = 0 => (direction'[l] = "Up" /\ tgt'[l] = ts[1])
                 /\ pos = n => (direction'[l] = "Down" /\ tgt'[l] = ts[n])
                 /\ (0 < pos /\ pos < n) =>
                       /\ direction'[l] = direction[l]
                       /\ direction[l] = "Up" => tgt'[l] = ts[pos + 1]
                       /\ direction[l] = "Down" => tgt'[l] = ts[pos]]_vars

\* The only lift has just taken its next target while going Down between
\* two queued floors: the target is the floor below.
C13_Witness ==
    /\ lift_count = 1
    /\ ret.op = "none"
    /\ pc[0] = "move"
    /\ direction[0] = "Down"
    /\ InsertionPos(0) > 0
    /\ InsertionPos(0) < Len(targets[0])
    /\ floor[0] \notin Range(targets[0])
    /\ tgt[0] = targets[0][InsertionPos(0)]

\* ---- C14 ----
\* C14: in every run, with respond calls at any moment, no step changes a
\* lift's direction from Up to Down while its queue holds a floor above the
\* lift's floor, nor from Down to Up while it holds a floor below: the lift
\* reverses only at the end of its queue.
C14_Scan ==
    [][\A l \in Lifts :
          /\ (direction[l] = "Up" /\ direction'[l] = "Down") =>
                /\ \A t \in Range(targets[l]) : t <= floor[l]
                /\ \A t \in Range(targets'[l]) : t <= floor'[l]
          /\ (direction[l] = "Down" /\ direction'[l] = "Up") =>
                /\ \A t \in Range(targets[l]) : t >= floor[l]
                /\ \A t \in Range(targets'[l]) : t >= floor'[l]]_vars

\* The only lift, called to floor 1 by the only request so far, went Up to
\* it, took the passenger in and has just turned Down for floor 0.
C14_Witness ==
    /\ lift_count = 1
    /\ budget = MaxRequests - 1
    /\ ret.op = "none"
    /\ pc[0] = "move"
    /\ floor[0] = 1
    /\ passengers[0] = <<[from_floor |-> 1, to_floor |-> 0, riding |-> TRUE]>>
    /\ targets[0] = <<0>>
    /\ tgt[0] = 0
    /\ direction[0] = "Down"

\* ---- C15 ----
\* The step of move_towards that sets the direction, and the step that
\* arrives (reach_floor's set_floor).
MoveStep(l) == pc[l] = "move" /\ pc'[l] = "travel"
TravelStep(l) == pc[l] = "travel" /\ pc'[l] = "arrive"

\* C15: in a control cycle with a next target the lift sets its direction
\* toward the target (Up if the target is above its floor, Down if below,
\* unchanged if equal) and then arrives one floor closer to the target, or
\* at the same floor if the target is its floor; it never arrives farther
\* from the target than where the cycle started.
C15_StepTowardTarget ==
    [][\A l \in Lifts :
          /\ MoveStep(l) =>
                direction'[l] = (IF tgt[l] > floor[l] THEN "Up"
                                 ELSE IF tgt[l] < floor[l] THEN "Down"
                                 ELSE direction[l])
          /\ TravelStep(l) =>
                /\ floor'[l] = (IF tgt[l] > floor[l] THEN floor[l] + 1
                                ELSE IF tgt[l] < floor[l] THEN floor[l] - 1
                                ELSE floor[l])
                /\ difference(floor'[l], tgt[l]) <= difference(floor[l], tgt[l])]_vars

\* ---- C16 ----
\* The step of reach_floor that follows set_floor: the arrival.
ArriveStep(l) == pc[l] = "arrive" /\ pc'[l] # "arrive"

\* A floor leaves lift l's queue only in an arrival of l at that floor.
RemovedOnlyOnArrival(l) ==
    \A f \in Range(targets[l]) \ Range(targets'[l]) :
       ArriveStep(l) /\ floor[l] = f

\* C16 as stated: a floor leaves a lift's queue only by an arrival of that
\* lift at that floor, and after every arrival at a queued floor the floor
\* is no longer in the queue.
C16_RemovedOnArrival ==
    [][\A l \in Lifts :
          /\ RemovedOnlyOnArrival(l)
          /\ (ArriveStep(l) /\ floor[l] \in Range(targets[l]))
                => floor[l] \notin Range(targets'[l])]_vars

\* Somebody in lift l whose from_floor and to_floor are both the floor the
\* lift stands on.
BoardsForHere(l) ==
    \E p \in Range(passengers[l]) :
       p.from_floor = floor[l] /\ p.to_floor = floor[l]

\* C16 amended: a floor leaves a lift's queue only by an arrival of that
\* lift at that floor; every arrival at a queued floor takes the floor off
\* the queue and has the doors opened, and the floor is in the queue after
\* the arrival exactly when a passenger who boards in that arrival has it as
\* to_floor, which queues it again.
C16_RemovedUnlessRequeued ==
    [][\A l \in Lifts :
          /\ RemovedOnlyOnArrival(l)
          /\ (ArriveStep(l) /\ floor[l] \in Range(targets[l])) =>
                /\ pc'[l] = "open"
                /\ (floor[l] \in Range(targets'[l])) <=> BoardsForHere(l)
                /\ Range(targets[l]) \ {floor[l]} \subseteq Range(targets'[l])]_vars

\* The only lift has just arrived at a queued floor where a passenger for
\* that very floor boarded and alighted: the doors are to open and the floor
\* is in the queue again.
C16_Witness ==
    /\ lift_count = 1
    /\ ret.op = "none"
    /\ pc[0] = "open"
    /\ passengers[0] = <<>>
    /\ floor[0] \in Range(targets[0])

\* ---- C17 ----
\* C17: an arrival has the doors opened if and only if the floor arrived at
\* was in the queue at that arrival; the doors open only then, and they are
\* opened and closed again before the loop goes on, so that the doors are
\* closed whenever a control cycle starts (and all through it, up to the
\* door phase of its arrival).
C17_Doors ==
    /\ [](\A l \in Lifts : doors_open[l] => pc[l] = "close")
    /\ [][\A l \in Lifts :
             /\ ArriveStep(l) =>
                   (pc'[l] = "open" <=> floor[l] \in Range(targets[l]))
             /\ (pc'[l] = "open" /\ pc[l] # "open") => ArriveStep(l)
             /\ (doors_open'[l] /\ ~doors_open[l]) => pc[l] = "open"
             /\ (pc[l] = "open" /\ pc'[l] # "open") =>
                   (doors_open'[l] /\ pc'[l] = "close")
             /\ (pc[l] = "close" /\ pc'[l] # "close") =>
                   (~doors_open'[l] /\ pc'[l] = "next")
             /\ (pc[l] = "arrive" /\ pc'[l] \notin {"arrive", "open"}) =>
                   pc'[l] = "next"]_vars

\* A lift stands with its doors open at a floor it has taken off its queue,
\* while another lift has arrived at a floor that was not queued and starts
\* its next cycle with its doors closed.
C17_Witness ==
    \E l, k \in Lifts :
       /\ pc[l] = "close"
       /\ doors_open[l]
       /\ floor[l] \notin Range(targets[l])
       /\ pc[k] = "next"
       /\ floor[k] > 0
       /\ targets[k] # <<>>
       /\ ~doors_open[k]

\* ---- C18 ----
\* Passenger p after boarding at floor f, if that is where p waits.
Boarded(p, f) == IF p.from_floor = f THEN [p EXCEPT !.riding = TRUE] ELSE p

\* C18: an arrival at floor f leaves in the lift, in their order, exactly
\* the passengers who do not ride to f once those who wait at f have
\* boarded: whoever waits at f and stays ends riding with their to_floor in
\* the queue, whoever rides to f is removed, everybody else is unchanged;
\* nobody is removed at a floor other than their to_floor, and no other step
\* removes or changes a passenger.
C18_BoardAndAlight ==
    [][\A l \in Lifts :
          /\ ArriveStep(l) =>
                LET f == floor[l]
                    ps == passengers[l]
                    after == [i \in 1 .. Len(ps) |-> Boarded(ps[i], f)]
                    stays(p) == ~(p.riding /\ p.to_floor = f)
                IN  /\ passengers'[l] = SelectSeq(after, stays)
                    /\ \A q \in Range(passengers'[l]) :
                          q.from_floor = f =>
                             (q.riding /\ q.to_floor \in Range(targets'[l]))
                    /\ \A i \in 1 .. Len(ps) :
                          after[i] \notin Range(passengers'[l]) =>
                             (ps[i].to_floor = f /\ after[i].riding)
          /\ ~ArriveStep(l) =>
                Range(passengers[l]) \subseteq Range(passengers'[l])]_vars

\* The only lift has just arrived at a floor where somebody boarded, while
\* somebody who waits at another floor for a ride to this floor is still
\* in the lift's passenger set, not riding.
C18_Witness ==
    /\ lift_count = 1
    /\ ret.op = "none"
    /\ pc[0] = "open"
    /\ \E p, q \in Range(passengers[0]) :
          /\ p.riding
          /\ p.from_floor = floor[0]
          /\ p.to_floor \in Range(targets[0])
          /\ ~q.riding
          /\ q.from_floor # floor[0]
          /\ q.to_floor = floor[0]

\* ---- C19 ----
\* C19: a lock failure inside an iteration of a lift's control loop ends
\* that iteration only: the loop is never terminated, whichever locks fail.
C19_LoopNeverEnds == \A l \in Lifts : pc[l] # "dead"

\* ---- C20 ----
\* Lift l is at rest: nobody waits or rides, nothing is queued, the doors
\* are closed and the direction is Stopped.
Quiescent(l) ==
    /\ passengers[l] = <<>>
    /\ targets[l] = <<>>
    /\ ~doors_open[l]
    /\ direction[l] = "Stopped"

\* C20: with finitely many requests, all for floors of the building, and
\* every control thread scheduled fairly, every lift eventually is and from
\* then on stays at rest.
C20_Quiescence == <>[](\A l \in Lifts : Quiescent(l))

\* All requests have been made and served, by a lift that has come to rest
\* away from the floor it started on.
C20_Witness ==
    /\ budget = 0
    /\ lift_count > 0
    /\ \A l \in Lifts : Quiescent(l) /\ pc[l] = "next"
    /\ \E l \in Lifts : floor[l] # 0

\* ---- C21 ----
\* C21: with bottom_floor <= 0 <= top_floor and every request for floors of
\* the building, every lift's floor is a floor of the building in every
\* reachable state, also when a pickup is requested at the floor of a lift
\* that goes Up or Down.
C21_FloorInBuilding == \A l \in Lifts : floor[l] \in BottomFloor .. TopFloor

\* ---- C22 ----
\* C22: no pickup is lost: in every state outside the critical sections of
\* add_passenger and of an arrival (between the steps of the model), every
\* passenger of a lift who is not riding has their from_floor in that
\* lift's queue.
C22_NoPickupLost ==
    \A l \in Lifts :
       \A p \in Range(passengers[l]) :
          ~p.riding => p.from_floor \in Range(targets[l])

\* A lift has just arrived at a queued floor, which it took off its queue,
\* while somebody still waits for it at a lower floor.
C22_Witness ==
    \E l \in Lifts :
       /\ pc[l] = "open"
       /\ floor[l] \notin Range(targets[l])
       /\ \E p \in Range(passengers[l]) :
             ~p.riding /\ p.from_floor < floor[l]

\* ---- C23 ----
\* C23: a lift never moves with its doors open: from the step that sets
\* doors_open to the step that sets it back, that step included, the lift's
\* floor does not change; and whenever the floor changes, the doors are
\* closed before and after and the change is by one floor.
C23_NoMoveDoorsOpen ==
    [][\A l \in Lifts :
          /\ doors_open[l] => floor'[l] = floor[l]
          /\ floor'[l] # floor[l] =>
                /\ ~doors_open[l]
                /\ ~doors_open'[l]
                /\ difference(floor'[l], floor[l]) = 1]_vars

\* A lift that has moved up stands with its doors open, with a floor still
\* to go to, while another lift is between floors on its way.
C23_Witness ==
    \E l, k \in Lifts :
       /\ doors_open[l]
       /\ floor[l] > 0
       /\ targets[l] # <<>>
       /\ pc[k] = "travel"
       /\ ldir[k] # "Stopped"

\* ---- C24 ----
\* Thread t stands before read() or write().
Wants(t) == prog[t] # <<>> /\ Head(prog[t]).a = "acq"

\* The threads whose guards, or whose earlier claim to the lock, can keep t
\* from the lock it wants: the holders of the lock if t wants to write; if
\* t wants to read, the holder that writes and, as RwLock may let a waiting
\* writer pass before new readers, every thread that waits to write it.
WaitsOn(t) ==
    LET o == Head(prog[t])
        guards == {h \in held : h.l = o.l /\ h.f = o.f}
        holders == {h.t : h \in guards}
        writers == {h.t : h \in {g \in guards : g.m = "w"}}
        queued == {u \in Threads \ {t} :
                      /\ holders # {}
                      /\ Wants(u)
                      /\ Head(prog[u]).l = o.l
                      /\ Head(prog[u]).f = o.f
                      /\ Head(prog[u]).m = "w"}
    IN  IF o.m = "w" THEN holders ELSE writers \cup queued

Blocked(t) == Wants(t) /\ WaitsOn(t) # {}

\* C24: the per-field locks are free of deadlock: whatever the interleaving
\* of the lock acquisitions of the control loops and of concurrent respond
\* and data callers, there is never a set of threads each of which waits
\* for a lock on a thread of the set; so every waiting thread waits, in the
\* end, on a thread that runs and drops its guards, and its acquisition
\* completes.
C24_NoDeadlock ==
    \A D \in SUBSET Threads \ {{}} :
       \E t \in D : ~Blocked(t) \/ WaitsOn(t) \cap D = {}

\* The control thread of a lift waits for the passengers lock on a caller
\* that is in add_passenger, and that caller waits in turn for the targets
\* lock on another thread.
C24_Witness ==
    \E t \in Lifts, u \in Callers :
       /\ Blocked(t)
       /\ Head(prog[t]).f = "passengers"
       /\ u \in WaitsOn(t)
       /\ Blocked(u)
       /\ Head(prog[u]).f = "targets"

====
